---- MODULE Spec2Model ----
(***************************************************************************)
(* Query governance pipeline of the enterprise RAG chatbot (backend.py):   *)
(* SecurityGate, IntentClassifier, AuthenticationSystem, the agents and    *)
(* RAGOrchestrator (login / logout / process_query).                       *)
(*                                                                         *)
(* Text is modelled as a sequence of one-character strings, so that        *)
(* str.lower, str.strip, the `in` substring test and the regular           *)
(* expression of the gate are computed character by character.             *)
(* Messages built with f-strings are sequences of their parts.             *)
(* Floating point confidences are written in tenths (1.0 -> 10).           *)
(***************************************************************************)
EXTENDS Naturals, Sequences, FiniteSets

VARIABLES
    verified_sessions,  \* RAGOrchestrator.verified_sessions: {session_id: employee_number}
    pc,                 \* "idle": no call in progress; "called": a caller has made the
                        \* call in `call`; "returned": the call has run, `ret` holds its result
    call,               \* the call in progress (operation and arguments)
    ret,                \* what the call returned, or the exception it raised
    pre_sessions,       \* history: verified_sessions as it was when the call started
    revoked,            \* history: sessions logged out and not successfully logged in since
    last_login,         \* history: for each session with a successful login since its last
                        \* logout, the employee_number the most recent such login returned
    session_state,      \* app.py: st.session_state of the chat page (a dict)
    page,               \* app.py: the widgets the last script run has put on the page
    thr                 \* the threads of control that share the orchestrator

vars == <<verified_sessions, pc, call, ret, pre_sessions, revoked, last_login,
          session_state, page, thr>>

\* What the orchestrator called by one caller leaves alone.
other_vars == <<session_state, page, thr>>

-----------------------------------------------------------------------------
(* Characters and the str methods the code uses                            *)

\* Characters for which str.isspace() holds and which \s matches (ASCII part).
Whitespace == {" ", "\t", "\n", "\r", "\f"}

UPPER == <<"A","B","C","D","E","F","G","H","I","J","K","L","M",
           "N","O","P","Q","R","S","T","U","V","W","X","Y","Z">>
LOWER == <<"a","b","c","d","e","f","g","h","i","j","k","l","m",
           "n","o","p","q","r","s","t","u","v","w","x","y","z">>

LowerChar(c) ==
    IF \E i \in 1..Len(UPPER) : UPPER[i] = c
    THEN LOWER[CHOOSE i \in 1..Len(UPPER) : UPPER[i] = c]
    ELSE c

\* str.lower()
lower(s) == [i \in 1..Len(s) |-> LowerChar(s[i])]

\* str.strip(): drops the leading and the trailing whitespace, keeps the inner.
strip(s) ==
    LET keep == {i \in 1..Len(s) : s[i] \notin Whitespace}
    IN  IF keep = {} THEN <<>>
        ELSE SubSeq(s, CHOOSE i \in keep : \A j \in keep : i <= j,
                       CHOOSE i \in keep : \A j \in keep : i >= j)

\* `sub in s` for two str values
contains(s, sub) ==
    \E i \in 1..(Len(s) + 1) :
        /\ i + Len(sub) - 1 <= Len(s)
        /\ SubSeq(s, i, i + Len(sub) - 1) = sub

\* "\n".join(parts) and concatenation of a sequence of texts
RECURSIVE join(_, _)
join(sep, parts) ==
    IF parts = <<>> THEN <<>>
    ELSE IF Len(parts) = 1 THEN parts[1]
    ELSE parts[1] \o sep \o join(sep, Tail(parts))

-----------------------------------------------------------------------------
(* SecurityGate                                                            *)

RE_IGNORE   == <<"i","g","n","o","r","e">>
RE_PREVIOUS == <<"p","r","e","v","i","o","u","s">>

\* A literal of the pattern matched at position pos under re.IGNORECASE.
match_literal(lit, s, pos) ==
    /\ pos + Len(lit) - 1 <= Len(s)
    /\ \A j \in 1..Len(lit) : LowerChar(s[pos + j - 1]) = LowerChar(lit[j])

\* Length of the longest run of \s characters starting at pos (greedy \s+).
RECURSIVE space_run(_, _)
space_run(s, pos) ==
    IF pos <= Len(s) /\ s[pos] \in Whitespace THEN 1 + space_run(s, pos + 1) ELSE 0

\* The pattern r'ignore\s+previous' tried at start position i: the literal, the
\* greedy whitespace run (backtracking from the longest run down to one
\* character), the second literal.
match_at(s, i) ==
    /\ match_literal(RE_IGNORE, s, i)
    /\ \E k \in 1..space_run(s, i + Len(RE_IGNORE)) :
          match_literal(RE_PREVIOUS, s, i + Len(RE_IGNORE) + k)

\* re.search(r'ignore\s+previous', query, re.IGNORECASE)
re_search(query) == \E i \in 1..Len(query) : match_at(query, i)

\* Mutant of the gate: the flag re.IGNORECASE forgotten.
validate_input_case_sensitive(query) ==
    IF \E i \in 1..Len(query) :
          /\ i + 5 <= Len(query)
          /\ SubSeq(query, i, i + 5) = RE_IGNORE
          /\ \E k \in 1..space_run(query, i + 6) :
                /\ i + 6 + k + 7 <= Len(query)
                /\ SubSeq(query, i + 6 + k, i + 6 + k + 7) = RE_PREVIOUS
    THEN <<FALSE, "Security Violation">>
    ELSE <<TRUE, "Safe">>

validate_input(query) ==
    IF re_search(query) THEN <<FALSE, "Security Violation">>
    ELSE <<TRUE, "Safe">>

-----------------------------------------------------------------------------
(* IntentClassifier                                                        *)

GENERAL_AWARENESS  == "GENERAL_AWARENESS"
HR_QUERY           == "HR_QUERY"
FINANCE_QUERY      == "FINANCE_QUERY"
SENSITIVE_INTERNAL == "SENSITIVE_INTERNAL"
PII                == "PII"
IntentCategory == {GENERAL_AWARENESS, HR_QUERY, FINANCE_QUERY, SENSITIVE_INTERNAL, PII}

FINANCE_KEYWORDS ==
    { <<"s","a","l","a","r","y">>, <<"c","t","c">>,
      <<"c","o","m","p","e","n","s","a","t","i","o","n">>, <<"c","o","s","t">>,
      <<"b","u","d","g","e","t">>, <<"b","o","n","u","s">>, <<"s","t","o","c","k">> }
HR_KEYWORDS ==
    { <<"h","r">>, <<"p","o","l","i","c","y">>, <<"l","e","a","v","e">>,
      <<"h","o","l","i","d","a","y">>, <<"p","e","r","f","o","r","m","a","n","c","e">>,
      <<"p","r","o","m","o","t","i","o","n">>, <<"t","r","a","i","n","i","n","g">> }
SENSITIVE_KEYWORDS ==
    { <<"m","y">>, <<"m","e">>, <<"m","i","n","e">>,
      <<"p","e","r","s","o","n","a","l">>, <<"i"," ","a","m">> }

ClassificationResult(intent, confidence, reason) ==
    [intent |-> intent, confidence |-> confidence, reason |-> reason]

\* Mutants of the classifier: the finance test moved before the sensitive
\* test; the HR test moved before the finance test.
classify_finance_first(query) ==
    LET query_lower == lower(query)
    IN  IF \E k \in FINANCE_KEYWORDS : contains(query_lower, k)
        THEN ClassificationResult(FINANCE_QUERY, 9, "Finance")
        ELSE IF \E k \in SENSITIVE_KEYWORDS : contains(query_lower, k)
        THEN ClassificationResult(SENSITIVE_INTERNAL, 10, "Personal Inquiry")
        ELSE IF \E k \in HR_KEYWORDS : contains(query_lower, k)
        THEN ClassificationResult(HR_QUERY, 9, "HR")
        ELSE ClassificationResult(GENERAL_AWARENESS, 5, "General")

classify_hr_first(query) ==
    LET query_lower == lower(query)
    IN  IF \E k \in SENSITIVE_KEYWORDS : contains(query_lower, k)
        THEN ClassificationResult(SENSITIVE_INTERNAL, 10, "Personal Inquiry")
        ELSE IF \E k \in HR_KEYWORDS : contains(query_lower, k)
        THEN ClassificationResult(HR_QUERY, 9, "HR")
        ELSE IF \E k \in FINANCE_KEYWORDS : contains(query_lower, k)
        THEN ClassificationResult(FINANCE_QUERY, 9, "Finance")
        ELSE ClassificationResult(GENERAL_AWARENESS, 5, "General")

classify(query) ==
    LET query_lower == lower(query)
    IN  IF \E k \in SENSITIVE_KEYWORDS : contains(query_lower, k)
        THEN ClassificationResult(SENSITIVE_INTERNAL, 10, "Personal Inquiry")
        ELSE IF \E k \in FINANCE_KEYWORDS : contains(query_lower, k)
        THEN ClassificationResult(FINANCE_QUERY, 9, "Finance")
        ELSE IF \E k \in HR_KEYWORDS : contains(query_lower, k)
        THEN ClassificationResult(HR_QUERY, 9, "HR")
        ELSE ClassificationResult(GENERAL_AWARENESS, 5, "General")

-----------------------------------------------------------------------------
(* AuthenticationSystem                                                    *)

\* dummy_employee_credentials.csv as read by pandas: one row per employee.
\* pandas keeps the cells as they are written in the file, so a secret may
\* carry inner or trailing blanks (rows 2 and 3).
creds_df ==
    << [dummy_email    |-> <<"a","@","x">>,
        dummy_password |-> <<"p","w","1">>,
        EmployeeNumber |-> 101],
       [dummy_email    |-> <<"b","@","x">>,
        dummy_password |-> <<"p","w"," ","2">>,
        EmployeeNumber |-> 102],
       [dummy_email    |-> <<"c","@","x">>,
        dummy_password |-> <<"p","w","3"," ">>,
        EmployeeNumber |-> 103] >>

\* AuthenticationSystem.__init__: the dict comprehension over the rows; a
\* later row with the same e-mail replaces the earlier one.  str() of a text
\* cell is the cell.
RECURSIVE credentials_of(_)
credentials_of(df) ==
    IF df = <<>> THEN [e \in {} |-> e]
    ELSE LET n    == Len(df)
             d    == credentials_of(SubSeq(df, 1, n - 1))
             row  == df[n]
         IN  [e \in (DOMAIN d) \cup {row.dummy_email} |->
                 IF e = row.dummy_email
                 THEN [password |-> row.dummy_password,
                       employee_number |-> row.EmployeeNumber]
                 ELSE d[e]]

credentials == credentials_of(creds_df)

None == "None"

VerificationResult(verified, employee_number, message) ==
    [verified |-> verified, employee_number |-> employee_number, message |-> message]

\* Mutant: the two strip() calls left out.
verify_credentials_no_strip(email, password) ==
    IF email \in DOMAIN credentials /\ credentials[email].password = password
    THEN VerificationResult(TRUE, credentials[email].employee_number, "Success")
    ELSE VerificationResult(FALSE, None, "Invalid credentials")

verify_credentials(email, password) ==
    LET email1    == strip(email)
        password1 == strip(password)
    IN  IF email1 \in DOMAIN credentials /\ credentials[email1].password = password1
        THEN VerificationResult(TRUE, credentials[email1].employee_number, "Success")
        ELSE VerificationResult(FALSE, None, "Invalid credentials")

-----------------------------------------------------------------------------
(* Agents                                                                  *)

general_agent == [name |-> "GeneralAgent"]
hr_agent      == [name |-> "HRAgent"]
finance_agent == [name |-> "FinanceAgent"]

\* HRAgent.requires_verification and FinanceAgent.requires_verification
requires_verification(agent, intent) == intent = SENSITIVE_INTERNAL

\* The agents whose class defines requires_verification (GeneralAgent and
\* BaseAgent do not).
defines_requires_verification(agent) == agent \in {hr_agent, finance_agent}

-----------------------------------------------------------------------------
(* RAGOrchestrator                                                         *)

\* dict helpers: d[k] = v and del d[k]
dict_set(d, k, v) == [x \in (DOMAIN d) \cup {k} |-> IF x = k THEN v ELSE d[x]]
dict_del(d, k)    == [x \in (DOMAIN d) \ {k} |-> d[x]]

\* Mutant: the session is recorded whatever the verification says.
login_always_records(sessions, email, password, session_id) ==
    LET res == verify_credentials(email, password)
    IN  [res |-> res,
         verified_sessions |-> dict_set(sessions, session_id, res.employee_number)]

\* Mutant: self.verified_sessions.setdefault(...), an authorized session keeps
\* the employee it has.
login_setdefault(sessions, email, password, session_id) ==
    LET res == verify_credentials(email, password)
    IN  [res |-> res,
         verified_sessions |->
             IF res.verified /\ session_id \notin DOMAIN sessions
             THEN dict_set(sessions, session_id, res.employee_number)
             ELSE sessions]

\* Mutant: the login is recorded under the default session id, whatever
\* session_id is given.
login_default_session(sessions, email, password, session_id) ==
    LET res == verify_credentials(email, password)
    IN  [res |-> res,
         verified_sessions |->
             IF res.verified
             THEN dict_set(sessions, "default", res.employee_number)
             ELSE sessions]

login(sessions, email, password, session_id) ==
    LET res == verify_credentials(email, password)
    IN  [res |-> res,
         verified_sessions |->
             IF res.verified
             THEN dict_set(sessions, session_id, res.employee_number)
             ELSE sessions]

\* Mutants: logout that forgets the del; logout that deletes without the
\* membership test (del of an absent key raises KeyError).
logout_keeps_session(sessions, session_id) ==
    [raised |-> FALSE, verified_sessions |-> sessions]

logout_unguarded_del(sessions, session_id) ==
    IF session_id \in DOMAIN sessions
    THEN [raised |-> FALSE, verified_sessions |-> dict_del(sessions, session_id)]
    ELSE [raised |-> TRUE,  verified_sessions |-> sessions]

logout(sessions, session_id) ==
    [raised |-> FALSE,
     verified_sessions |->
         IF session_id \in DOMAIN sessions
         THEN dict_del(sessions, session_id)
         ELSE sessions]

-----------------------------------------------------------------------------
(* RAGOrchestrator.process_query                                           *)

\* The constant texts of process_query.  The source starts the first with the
\* character U+26D4 and the second with U+1F512, written here by code point.
REJECT_PREFIX == "[U+26D4] "
ACCESS_DENIED ==
    "[U+1F512] **Access Denied:** You are asking for personal data. Please **Log In** using the sidebar on the left."
ERROR_PREFIX  == "Error connecting to AI: "

\* Mutant: the elif for SENSITIVE_INTERNAL left out, so that it falls to else.
select_agent_without_sensitive(intent) ==
    IF intent = HR_QUERY THEN hr_agent
    ELSE IF intent = FINANCE_QUERY THEN finance_agent
    ELSE general_agent

\* 3. Agent Selection
select_agent(intent) ==
    IF intent = HR_QUERY THEN hr_agent
    ELSE IF intent = FINANCE_QUERY THEN finance_agent
    ELSE IF intent = SENSITIVE_INTERNAL THEN hr_agent
    ELSE general_agent

\* Mutant: the slice [:3] left out.
context_of_all_docs(docs) == join(<<"\n">>, docs)

\* context = "\n".join([d.page_content for d in docs[:3]])
context_of(docs) ==
    join(<<"\n">>, SubSeq(docs, 1, IF Len(docs) < 3 THEN Len(docs) ELSE 3))

\* The f-string prompt: the template with the context and the query in it.
prompt_of(context, query) ==
    [template |-> "Role: You are a corporate assistant. Context: {context} User Question: {query} Instruction: Answer the question based on the context. If the context doesn't help, answer generally about corporate standards. Answer:",
     context  |-> context,
     query    |-> query]

\* Mutant: the llm call without its try/except.
invoke_llm_unguarded(llm) ==
    IF llm.kind = "raise" THEN [raised |-> TRUE, value |-> <<llm.error>>]
    ELSE IF llm.kind = "message" THEN [raised |-> FALSE, value |-> <<llm.content>>]
    ELSE [raised |-> FALSE, value |-> <<llm.str>>]

\* The try/except around self.llm.invoke(prompt).  llm is what the service does
\* with the call: it returns an object that has a content attribute
\* ("message"), it returns an object that has none ("plain", str(response) is
\* taken), or it raises an Exception e ("raise", error is str(e)).
invoke_llm(llm) ==
    IF llm.kind = "raise"
    THEN [raised |-> FALSE, value |-> <<ERROR_PREFIX, llm.error>>]
    ELSE IF llm.kind = "message" THEN [raised |-> FALSE, value |-> <<llm.content>>]
    ELSE [raised |-> FALSE, value |-> <<llm.str>>]

\* The result of process_query: the string returned (a sequence of parts) or
\* the exception raised (raised, with its message), the calls made to the two collaborators in order,
\* and the intent and agent the call computed (None when it stopped before).
Outcome(raised, value, calls, intent, agent) ==
    [raised |-> raised, value |-> value, calls |-> calls,
     intent |-> intent, agent |-> agent]

index_call(query, idx)  == [service |-> "index", arg |-> query, result |-> idx]
llm_call(prompt, llm)   == [service |-> "llm", arg |-> prompt, result |-> llm]

\* 5. Retrieval & Response: lines 133-148.  idx is what the Document Index
\* does with the search: it returns docs ("docs") or raises ("raise").
retrieve_and_respond(query, idx, llm, intent, agent) ==
    IF idx.kind = "raise"
    THEN Outcome(TRUE, <<idx.error>>, <<index_call(query, idx)>>, intent, agent)
    ELSE LET context  == context_of(idx.docs)
             prompt   == prompt_of(context, query)
             response == invoke_llm(llm)
         IN  Outcome(response.raised, response.value,
                     <<index_call(query, idx), llm_call(prompt, llm)>>,
                     intent, agent)


\* Mutant: step 4 (the session check for sensitive queries) left out.
process_query_no_auth_check(sessions, query, session_id, idx, llm) ==
    LET gate == validate_input(query)
        safe == gate[1]
        msg  == gate[2]
    IN  IF ~safe THEN Outcome(FALSE, <<REJECT_PREFIX, msg>>, <<>>, None, None)
        ELSE LET classification == classify(query)
                 agent          == select_agent(classification.intent)
             IN  retrieve_and_respond(query, idx, llm, classification.intent, agent)

\* Mutant: the session check is made for the queries routed to the HR agent
\* instead of the sensitive ones.
process_query_agent_gated(sessions, query, session_id, idx, llm) ==
    LET gate == validate_input(query)
        safe == gate[1]
        msg  == gate[2]
    IN  IF ~safe THEN Outcome(FALSE, <<REJECT_PREFIX, msg>>, <<>>, None, None)
        ELSE LET classification == classify(query)
                 agent          == select_agent(classification.intent)
             IN  IF agent = hr_agent /\ session_id \notin DOMAIN sessions
                 THEN Outcome(FALSE, <<ACCESS_DENIED>>, <<>>,
                              classification.intent, agent)
                 ELSE retrieve_and_respond(query, idx, llm,
                                           classification.intent, agent)

process_query(sessions, query, session_id, idx, llm) ==
    LET gate == validate_input(query)
        safe == gate[1]
        msg  == gate[2]
    IN  IF ~safe THEN Outcome(FALSE, <<REJECT_PREFIX, msg>>, <<>>, None, None)
        ELSE LET classification == classify(query)
                 agent          == select_agent(classification.intent)
                 is_sensitive   == (classification.intent = SENSITIVE_INTERNAL)
             IN  IF is_sensitive /\ session_id \notin DOMAIN sessions
                 THEN Outcome(FALSE, <<ACCESS_DENIED>>, <<>>,
                              classification.intent, agent)
                 ELSE retrieve_and_respond(query, idx, llm,
                                           classification.intent, agent)

-----------------------------------------------------------------------------
(* The callers' inputs and the collaborators' behaviours                   *)

\* Most passages the Document Index returns for one search.
MaxDocs == 4
\* Most fragments in a query handed to the classifier alone.
MaxFrags == 2

\* "default" is process_query's default session_id, "session_user_1" the one
\* the chat page uses (app.py).
SessionIds == {"default", "session_user_1"}

EmailInputs ==
    { <<"a","@","x">>, <<" ","a","@","x","\t">>, <<"b","@","x">>,
      <<"c","@","x">>, <<"z","@","x">> }
PasswordInputs ==
    { <<"p","w","1">>, <<"\t","p","w","1"," ">>, <<" ","p","w"," ","2">>,
      <<"p","w","3"," ">>, <<"p","w","3">> }

\* Queries put to the orchestrator: every intent, with and without the
\* injection phrase, in several letter cases and whitespace runs.
OrchQueries ==
    { <<"h","i">>,
      <<"m","y"," ","s","a","l","a","r","y">>,
      <<"h","o","m","e">>,
      <<"B","o","n","u","s">>,
      <<"H","R"," ","l","e","a","v","e">>,
      <<"l","e","a","v","e"," ","c","o","s","t">>,
      <<"i","g","n","o","r","e","p","r","e","v","i","o","u","s">>,
      <<"i","g","n","o","r","e"," ","t","h","e"," ","p","r","e","v","i","o","u","s",
        " ","p","o","l","i","c","y">>,
      <<"i","g","n","o","r","e"," ","p","r","e","v","i","o","u","s">>,
      <<"I","G","N","O","R","E"," ","\t","\n","P","r","e","v","i","o","u","s",
        " ","m","y">>,
      <<"x","I","g","n","o","r","e","\n","p","r","e","v","i","o","u","S",
        " ","b","o","n","u","s">>,
      <<"h","r"," ","i","g","N","o","r","e"," "," ","p","R","e","v","i","o","u","s">>,
      <<"i","g","n","o","r","e","\r","\f","p","r","e","v","i","o","u","s">>,
      <<"I"," ","a","m"," ","o","n"," ","l","e","a","v","e">> }

DIGITS == <<"1","2","3","4","5","6","7","8","9">>
\* The passages of the index, most relevant first.
passage(i) == <<"d", DIGITS[i]>>

IndexOutcomes ==
    {[kind |-> "docs", docs |-> [i \in 1..n |-> passage(i)]] : n \in 0..MaxDocs}
    \cup {[kind |-> "raise", error |-> "index unavailable"]}

LlmOutcomes ==
    {[kind |-> "message", content |-> "generated answer"],
     [kind |-> "plain", str |-> "plain answer"],
     [kind |-> "raise", error |-> "quota exceeded"],
     [kind |-> "raise", error |-> "network down"]}

-----------------------------------------------------------------------------
(* The orchestrator as a state machine.  A caller (the chat page) makes a   *)
(* call, the method runs as one step, the caller takes the result.          *)

EmptyDict == [k \in {} |-> k]
NoCall    == [op |-> None]
NoResult  == [raised |-> FALSE, value |-> None]

Init ==
    /\ verified_sessions = EmptyDict
    /\ pc = "idle"
    /\ call = NoCall
    /\ ret = NoResult
    /\ pre_sessions = EmptyDict
    /\ revoked = {}
    /\ last_login = EmptyDict
    /\ session_state = EmptyDict
    /\ page = {}
    /\ thr = EmptyDict

\* The callers: app.py lines 43, 60 and 93.
Request(c) ==
    /\ pc = "idle"
    /\ pc' = "called"
    /\ call' = c
    /\ UNCHANGED <<verified_sessions, ret, pre_sessions, revoked, last_login>>
    /\ UNCHANGED other_vars

CallLogin ==
    \E email \in EmailInputs, password \in PasswordInputs, session_id \in SessionIds :
        Request([op |-> "login", email |-> email, password |-> password,
                 session_id |-> session_id])

CallLogout ==
    \E session_id \in SessionIds :
        Request([op |-> "logout", session_id |-> session_id])

CallProcessQuery ==
    \E query \in OrchQueries, session_id \in SessionIds :
        Request([op |-> "process_query", query |-> query, session_id |-> session_id])

\* RAGOrchestrator.login
Login ==
    /\ pc = "called" /\ call.op = "login"
    /\ LET r == login(verified_sessions, call.email, call.password, call.session_id)
       IN  /\ verified_sessions' = r.verified_sessions
           /\ ret' = [raised |-> FALSE, value |-> r.res]
           /\ revoked' = IF r.res.verified THEN revoked \ {call.session_id}
                                           ELSE revoked
           /\ last_login' = IF r.res.verified
                             THEN dict_set(last_login, call.session_id,
                                           r.res.employee_number)
                             ELSE last_login
    /\ pre_sessions' = verified_sessions
    /\ pc' = "returned"
    /\ UNCHANGED call
    /\ UNCHANGED other_vars

\* RAGOrchestrator.logout
Logout ==
    /\ pc = "called" /\ call.op = "logout"
    /\ LET r == logout(verified_sessions, call.session_id)
       IN  /\ verified_sessions' = r.verified_sessions
           /\ ret' = [raised |-> r.raised, value |-> None]
           /\ revoked' = IF r.raised THEN revoked ELSE revoked \cup {call.session_id}
    /\ last_login' = dict_del(last_login, call.session_id)
    /\ pre_sessions' = verified_sessions
    /\ pc' = "returned"
    /\ UNCHANGED call
    /\ UNCHANGED other_vars

\* Mutant: process_query ends the session's authorization once it has run.
ProcessQuery_ends_session ==
    /\ pc = "called" /\ call.op = "process_query"
    /\ \E idx \in IndexOutcomes, llm \in LlmOutcomes :
          ret' = process_query(verified_sessions, call.query, call.session_id, idx, llm)
    /\ verified_sessions' = logout(verified_sessions, call.session_id).verified_sessions
    /\ pre_sessions' = verified_sessions
    /\ pc' = "returned"
    /\ UNCHANGED <<call, revoked, last_login>>
    /\ UNCHANGED other_vars

\* RAGOrchestrator.process_query, with what the two collaborators do when
\* (and if) they are called.
ProcessQuery ==
    /\ pc = "called" /\ call.op = "process_query"
    /\ \E idx \in IndexOutcomes, llm \in LlmOutcomes :
          ret' = process_query(verified_sessions, call.query, call.session_id, idx, llm)
    /\ pre_sessions' = verified_sessions
    /\ pc' = "returned"
    /\ UNCHANGED <<verified_sessions, call, revoked, last_login>>
    /\ UNCHANGED other_vars

\* The caller takes the result (or the exception) and the call is over.
Return ==
    /\ pc = "returned"
    /\ pc' = "idle"
    /\ call' = NoCall
    /\ ret' = NoResult
    /\ pre_sessions' = verified_sessions
    /\ UNCHANGED <<verified_sessions, revoked, last_login>>
    /\ UNCHANGED other_vars

Next ==
    \/ CallLogin \/ CallLogout \/ CallProcessQuery
    \/ Login \/ Logout \/ ProcessQuery
    \/ Return

Spec == Init /\ [][Next]_vars

-----------------------------------------------------------------------------
(* IntentClassifier.classify and the agent selection on their own: the     *)
(* queries are drawn from all concatenations of at most MaxFrags           *)
(* fragments, the intents from IntentCategory.                             *)

Fragments ==
    SENSITIVE_KEYWORDS \cup FINANCE_KEYWORDS \cup HR_KEYWORDS \cup
    { <<"M","y">>, <<"S","A","L","A","R","Y">>, <<"H","R">>, <<"I"," ">>,
      <<"a","m">>, <<"m">>, <<"e">>, <<" ">>, <<"t","h","e">>, <<"h","i">> }

Queries ==
    { join(<<>>, fs) : fs \in UNION {[1..n -> Fragments] : n \in 0..MaxFrags} }

InitFn ==
    /\ verified_sessions = EmptyDict
    /\ pc = "called"
    /\ call \in {[op |-> "classify", query |-> q] : q \in Queries}
              \cup {[op |-> "select_agent", intent |-> i] : i \in IntentCategory}
    /\ ret = NoResult
    /\ pre_sessions = EmptyDict
    /\ revoked = {}
    /\ last_login = EmptyDict
    /\ session_state = EmptyDict
    /\ page = {}
    /\ thr = EmptyDict

\* IntentClassifier.classify(query)
Classify ==
    /\ pc = "called" /\ call.op = "classify"
    /\ ret' = [raised |-> FALSE, value |-> classify(call.query)]
    /\ pc' = "returned"
    /\ UNCHANGED <<verified_sessions, call, pre_sessions, revoked, last_login>>
    /\ UNCHANGED other_vars

\* Step 3 of process_query on its own, for every member of IntentCategory,
\* and the selected agent's requires_verification where its class has one.
SelectAgent ==
    /\ pc = "called" /\ call.op = "select_agent"
    /\ LET agent == select_agent(call.intent)
       IN  ret' = [raised |-> FALSE,
                   value  |-> [agent |-> agent,
                               requires_verification |->
                                   IF defines_requires_verification(agent)
                                   THEN requires_verification(agent, call.intent)
                                   ELSE None]]
    /\ pc' = "returned"
    /\ UNCHANGED <<verified_sessions, call, pre_sessions, revoked, last_login>>
    /\ UNCHANGED other_vars

NextFn == Classify \/ SelectAgent

SpecFn == InitFn /\ [][NextFn]_vars

-----------------------------------------------------------------------------
(* The chat page (app.py).  Streamlit runs the script from the top at each  *)
(* event of the browser session; one action is one whole run of the        *)
(* script.  The orchestrator lives in st.session_state, its                *)
(* verified_sessions is the variable of that name.                         *)

MaxMessages == 5

\* What the user types in the chat input.
UIQueries ==
    { <<"h","i">>,
      <<"m","y"," ","s","a","l","a","r","y">>,
      <<"i","g","n","o","r","e"," ","p","r","e","v","i","o","u","s">> }

GREETING == [role |-> "assistant", content |-> <<"Hello!">>]

has(ss, key) == key \in DOMAIN ss

SidebarResult(ss, sessions, widgets, rerun, fault) ==
    [ss |-> ss, verified_sessions |-> sessions, widgets |-> widgets,
     rerun |-> rerun, fault |-> fault]

\* Mutant: the Logout click that does not call orchestrator.logout.
logout_click_page_only(ss, sessions) ==
    LET ss2 == dict_set(ss, "auth_status", FALSE)
    IN  IF has(ss2, "user_email")
        THEN SidebarResult(dict_del(ss2, "user_email"), sessions, {"logout_button"},
                           TRUE, FALSE)
        ELSE SidebarResult(ss2, sessions, {"logout_button"}, FALSE, TRUE)

\* The click on Logout: lines 58-62.
logout_click(ss, sessions) ==
    LET ss2 == dict_set(ss, "auth_status", FALSE)
        s2  == IF has(ss2, "orchestrator")
               THEN logout(sessions, ss2.user_session).verified_sessions
               ELSE sessions
    IN  IF has(ss2, "user_email")
        THEN SidebarResult(dict_del(ss2, "user_email"), s2, {"logout_button"},
                           TRUE, FALSE)
        ELSE SidebarResult(ss2, s2, {"logout_button"}, FALSE, TRUE)

\* The click on Login: lines 42-52.
login_click(ss, sessions, email, password) ==
    IF has(ss, "orchestrator")
    THEN LET r == login(sessions, email, password, ss.user_session)
         IN  IF r.res.verified
             THEN SidebarResult(
                      dict_set(dict_set(ss, "auth_status", TRUE), "user_email", email),
                      r.verified_sessions, {"login_button", "logged_in"}, TRUE, FALSE)
             ELSE SidebarResult(ss, r.verified_sessions,
                                {"login_button", "invalid_credentials"}, FALSE, FALSE)
    ELSE SidebarResult(ss, sessions, {"login_button", "system_initializing"},
                       FALSE, FALSE)

defaults(ss) ==
    IF has(ss, "auth_status") THEN ss
    ELSE dict_set(dict_set(ss, "auth_status", FALSE),
                  "user_session", "session_user_1")

\* 3. Sidebar - Authentication: lines 27-62.  The line 56 reads user_email,
\* an AttributeError when it is not set.
sidebar_authentication(ss0, sessions, event, email, password) ==
    LET ss == defaults(ss0)
    IN  IF ~ss.auth_status
        THEN IF event = "Login"
             THEN login_click(ss, sessions, email, password)
             ELSE SidebarResult(ss, sessions, {"login_button"}, FALSE, FALSE)
        ELSE IF ~has(ss, "user_email")
             THEN SidebarResult(ss, sessions, {}, FALSE, TRUE)
        ELSE IF event = "Logout"
             THEN logout_click(ss, sessions)
             ELSE SidebarResult(ss, sessions, {"logout_button"}, FALSE, FALSE)

\* 4. Initialize System: lines 65-77.  init_ok: initialize_system and the
\* constructors return; otherwise the except branches end the run.
initialize(ss, sessions, init_ok) ==
    IF has(ss, "orchestrator")
    THEN [ss |-> ss, verified_sessions |-> sessions, stop |-> FALSE]
    ELSE IF init_ok
    THEN [ss |-> dict_set(dict_set(ss, "orchestrator", "RAGOrchestrator"),
                          "messages", <<GREETING>>),
          verified_sessions |-> EmptyDict, stop |-> FALSE]
    ELSE [ss |-> ss, verified_sessions |-> sessions, stop |-> TRUE]

\* 5. Chat Interface: lines 80-97.
chat_interface(ss, sessions, event, query, idx, llm) ==
    IF event # "Chat" THEN [ss |-> ss, widgets |-> {"chat_input"}]
    ELSE LET asked == Append(ss.messages, [role |-> "user", content |-> query])
             r == process_query(sessions, query, ss.user_session, idx, llm)
         IN  IF r.raised
             THEN [ss |-> dict_set(ss, "messages", asked),
                   widgets |-> {"chat_input", "error_processing_query"}]
             ELSE [ss |-> dict_set(ss, "messages",
                                   Append(asked, [role |-> "assistant",
                                                  content |-> r.value])),
                   widgets |-> {"chat_input"}]

RunResult(ss, sessions, widgets, rerun) ==
    [ss |-> ss, verified_sessions |-> sessions, page |-> widgets, rerun |-> rerun]

\* One run of the script, lines 10-97, up to its end, st.stop() or st.rerun().
run_once(ss, sessions, event, api_key, init_ok, email, password, query, idx, llm) ==
    IF ~api_key THEN RunResult(ss, sessions, {"api_key_missing"}, FALSE)
    ELSE LET a == sidebar_authentication(ss, sessions, event, email, password)
         IN  IF a.rerun
             THEN RunResult(a.ss, a.verified_sessions, a.widgets, TRUE)
             ELSE IF a.fault
             THEN RunResult(a.ss, a.verified_sessions, a.widgets \cup {"exception"}, FALSE)
             ELSE LET i == initialize(a.ss, a.verified_sessions, init_ok)
                  IN  IF i.stop
                      THEN RunResult(i.ss, i.verified_sessions,
                                     a.widgets \cup {"system_error"}, FALSE)
                      ELSE LET c == chat_interface(i.ss, i.verified_sessions, event,
                                                   query, idx, llm)
                           IN  RunResult(c.ss, i.verified_sessions,
                                         a.widgets \cup c.widgets, FALSE)

NoQuery == <<>>
NoIndex == [kind |-> "docs", docs |-> <<>>]
NoLlm   == [kind |-> "plain", str |-> "plain answer"]

\* An event of the browser session and what the run it starts will meet.
Event(op, api_key, init_ok, email, password, query, idx, llm) ==
    [op |-> op, api_key |-> api_key, init_ok |-> init_ok,
     email |-> email, password |-> password, query |-> query,
     idx |-> idx, llm |-> llm,
     orchestrator |-> has(session_state, "orchestrator")]

\* The page is opened or reloaded by the browser, or the API key field of
\* the sidebar is edited: a run without a click.
Rerun ==
    \E api_key \in BOOLEAN, init_ok \in BOOLEAN :
        Request(Event("Rerun", api_key, init_ok, NoQuery, NoQuery, NoQuery,
                      NoIndex, NoLlm))

ClickLogin ==
    /\ "login_button" \in page
    /\ \E email \in EmailInputs, password \in PasswordInputs, init_ok \in BOOLEAN :
           Request(Event("Login", TRUE, init_ok, email, password, NoQuery,
                         NoIndex, NoLlm))

ClickLogout ==
    /\ "logout_button" \in page
    /\ Request(Event("Logout", TRUE, TRUE, NoQuery, NoQuery, NoQuery, NoIndex, NoLlm))

SubmitChat ==
    /\ "chat_input" \in page
    /\ Len(session_state.messages) + 2 <= MaxMessages
    /\ \E query \in UIQueries, idx \in IndexOutcomes, llm \in LlmOutcomes :
           Request(Event("Chat", TRUE, TRUE, NoQuery, NoQuery, query, idx, llm))

\* Streamlit runs the script for the event.  A run that ends in st.rerun()
\* is followed by a run without a click.
RunScript ==
    /\ pc = "called"
    /\ LET r == run_once(session_state, verified_sessions, call.op, call.api_key,
                         call.init_ok, call.email, call.password, call.query,
                         call.idx, call.llm)
       IN  /\ session_state' = r.ss
           /\ verified_sessions' = r.verified_sessions
           /\ page' = r.page
           /\ pc' = IF r.rerun THEN "rerun" ELSE "returned"
    /\ UNCHANGED <<call, ret, pre_sessions, revoked, last_login, thr>>

StRerun ==
    /\ pc = "rerun"
    /\ pc' = "called"
    /\ call' = [call EXCEPT !.op = "Rerun"]
    /\ UNCHANGED <<verified_sessions, ret, pre_sessions, revoked, last_login>>
    /\ UNCHANGED other_vars

NextUI ==
    \/ Rerun \/ ClickLogin \/ ClickLogout \/ SubmitChat
    \/ RunScript \/ StRerun
    \/ Return

SpecUI == Init /\ [][NextUI]_vars

-----------------------------------------------------------------------------
(* Several threads of control sharing one orchestrator.  The code takes no *)
(* lock; what the interpreter makes indivisible is one operation on the    *)
(* dict (a store, a membership test, a del), and a thread switch can come  *)
(* between any two of them.  Everything else a method does is local to     *)
(* its thread.                                                             *)

Threads == {"t1", "t2"}

ThreadLogins ==
    { [email |-> <<"a","@","x">>, password |-> <<"p","w","1">>],
      [email |-> <<"b","@","x">>, password |-> <<" ","p","w"," ","2">>],
      [email |-> <<"a","@","x">>, password |-> <<"p","w","3">>] }

ThreadQueries == { <<"h","i">>, <<"m","y"," ","s","a","l","a","r","y">> }

Idle == [pc |-> "idle", call |-> NoCall, ret |-> NoResult]

KeyError(session_id) == [raised |-> TRUE, value |-> <<"KeyError", session_id>>]

InitThreads ==
    /\ verified_sessions = EmptyDict
    /\ pc = "idle"
    /\ call = NoCall
    /\ ret = NoResult
    /\ pre_sessions = EmptyDict
    /\ revoked = {}
    /\ last_login = EmptyDict
    /\ session_state = EmptyDict
    /\ page = {}
    /\ thr = [t \in Threads |-> Idle]

ThreadStep(t, next_pc, next_ret, sessions) ==
    /\ thr' = [thr EXCEPT ![t].pc = next_pc, ![t].ret = next_ret]
    /\ verified_sessions' = sessions
    /\ UNCHANGED <<pc, call, ret, pre_sessions, revoked, last_login,
                   session_state, page>>

\* A thread calls a method of the orchestrator.
ThreadCall(t) ==
    /\ thr[t].pc = "idle"
    /\ \E c \in {[op |-> "login", email |-> l.email, password |-> l.password,
                  session_id |-> s] : l \in ThreadLogins, s \in SessionIds}
           \cup {[op |-> "logout", session_id |-> s] : s \in SessionIds}
           \cup {[op |-> "process_query", query |-> q, session_id |-> s] :
                     q \in ThreadQueries, s \in SessionIds} :
           thr' = [thr EXCEPT ![t] = [pc |-> "start", call |-> c, ret |-> NoResult]]
    /\ UNCHANGED <<verified_sessions, pc, call, ret, pre_sessions, revoked,
                   last_login, session_state, page>>

\* login, lines 101-104: the verification is local, line 103 is one store.
ThreadLogin(t) ==
    /\ thr[t].pc = "start" /\ thr[t].call.op = "login"
    /\ LET c == thr[t].call
           r == login(verified_sessions, c.email, c.password, c.session_id)
       IN  ThreadStep(t, "done", [raised |-> FALSE, value |-> r.res],
                      r.verified_sessions)

\* logout, line 107: the membership test.
ThreadLogoutTest(t) ==
    /\ thr[t].pc = "start" /\ thr[t].call.op = "logout"
    /\ IF thr[t].call.session_id \in DOMAIN verified_sessions
       THEN ThreadStep(t, "del", NoResult, verified_sessions)
       ELSE ThreadStep(t, "done", NoResult, verified_sessions)

\* logout, line 108: del of a key that is no longer there raises KeyError.
ThreadLogoutDel(t) ==
    /\ thr[t].pc = "del"
    /\ LET s == thr[t].call.session_id
       IN  IF s \in DOMAIN verified_sessions
           THEN ThreadStep(t, "done", NoResult, dict_del(verified_sessions, s))
           ELSE ThreadStep(t, "done", KeyError(s), verified_sessions)

\* process_query: line 128 is its one read of the dict.
ThreadProcessQuery(t) ==
    /\ thr[t].pc = "start" /\ thr[t].call.op = "process_query"
    /\ LET c == thr[t].call
           r == process_query(verified_sessions, c.query, c.session_id, NoIndex, NoLlm)
       IN  ThreadStep(t, "done", [raised |-> r.raised, value |-> r.value],
                      verified_sessions)

ThreadReturn(t) ==
    /\ thr[t].pc = "done"
    /\ thr' = [thr EXCEPT ![t] = Idle]
    /\ UNCHANGED <<verified_sessions, pc, call, ret, pre_sessions, revoked,
                   last_login, session_state, page>>

NextThreads ==
    \E t \in Threads :
        \/ ThreadCall(t)
        \/ ThreadLogin(t)
        \/ ThreadLogoutTest(t)
        \/ ThreadLogoutDel(t)
        \/ ThreadProcessQuery(t)
        \/ ThreadReturn(t)

SpecThreads == InitThreads /\ [][NextThreads]_vars

-----------------------------------------------------------------------------
(* Properties                                                              *)

Returned(op) == pc = "returned" /\ call.op = op

has_keyword(query, keywords) == \E k \in keywords : contains(lower(query), k)

\* C8: a query whose lower-cased text contains a sensitive marker is
\* classified SENSITIVE_INTERNAL with confidence 1.0 (10 tenths), whatever
\* finance or HR keyword it also contains.
C8_SensitiveMarkerWins ==
    (Returned("classify") /\ has_keyword(call.query, SENSITIVE_KEYWORDS))
    => /\ ret.value.intent = SENSITIVE_INTERNAL
       /\ ret.value.confidence = 10

\* A marker in capitals together with a finance keyword has been classified.
C8_Witness ==
    /\ Returned("classify")
    /\ contains(call.query, <<"M","y">>)
    /\ has_keyword(call.query, FINANCE_KEYWORDS)
    /\ ret.value.intent = SENSITIVE_INTERNAL

\* C9: below the sensitive tier the chain is finance (0.9), then HR (0.9),
\* then GENERAL_AWARENESS (0.5); PII is never returned.
C9_PriorityChain ==
    Returned("classify") =>
        LET sens == has_keyword(call.query, SENSITIVE_KEYWORDS)
            fin  == has_keyword(call.query, FINANCE_KEYWORDS)
            hr   == has_keyword(call.query, HR_KEYWORDS)
        IN  /\ (~sens /\ fin) =>
                  (ret.value.intent = FINANCE_QUERY /\ ret.value.confidence = 9)
            /\ (~sens /\ ~fin /\ hr) =>
                  (ret.value.intent = HR_QUERY /\ ret.value.confidence = 9)
            /\ (~sens /\ ~fin /\ ~hr) =>
                  (ret.value.intent = GENERAL_AWARENESS /\ ret.value.confidence = 5)
            /\ ret.value.intent # PII

\* A query with an HR keyword and a finance keyword, the HR keyword first,
\* and no sensitive marker has been classified as finance.
C9_Witness ==
    /\ Returned("classify")
    /\ call.query = <<"l","e","a","v","e","c","o","s","t">>
    /\ ret.value.intent = FINANCE_QUERY


\* The query holds "ignore previous": the two words in any letter case with a
\* non-empty run of whitespace between them.
has_injection_phrase(query) ==
    \E i \in 1..Len(query), j \in 1..Len(query) :
        /\ i + 6 < j
        /\ j + 7 <= Len(query)
        /\ lower(SubSeq(query, i, i + 5)) = RE_IGNORE
        /\ \A k \in (i + 6)..(j - 1) : query[k] \in Whitespace
        /\ lower(SubSeq(query, j, j + 7)) = RE_PREVIOUS

REJECTION == <<REJECT_PREFIX, "Security Violation">>

\* C1 as stated: every query that classify labels SENSITIVE_INTERNAL, on a
\* session that is not in the store, gets the access-denied message and no
\* collaborator is called.
C1_Original ==
    ( /\ Returned("process_query")
      /\ classify(call.query).intent = SENSITIVE_INTERNAL
      /\ call.session_id \notin DOMAIN pre_sessions )
    => (~ret.raised /\ ret.value = <<ACCESS_DENIED>> /\ ret.calls = <<>>)

\* C1 amended: a query classified SENSITIVE_INTERNAL on a session that is not
\* in the store never reaches a collaborator; it gets the access-denied
\* message when it passes the Security Gate and the gate's rejection when it
\* does not.
C1_SensitiveUnauthorizedDenied ==
    ( /\ Returned("process_query")
      /\ classify(call.query).intent = SENSITIVE_INTERNAL
      /\ call.session_id \notin DOMAIN pre_sessions )
    => /\ ~ret.raised
       /\ ret.calls = <<>>
       /\ ret.value = IF has_injection_phrase(call.query) THEN REJECTION
                      ELSE <<ACCESS_DENIED>>

\* A sensitive query that passes the gate, put on a session that is not
\* authorized while another session is, has been denied.
C1_Witness ==
    /\ Returned("process_query")
    /\ call.query = <<"m","y"," ","s","a","l","a","r","y">>
    /\ call.session_id \notin DOMAIN verified_sessions
    /\ DOMAIN verified_sessions # {}
    /\ ret.value = <<ACCESS_DENIED>>

\* C2: a query holding "ignore previous" is not safe for validate_input, and
\* process_query returns the rejection with the gate's reason in it and calls
\* no collaborator, whatever the intent and the session's authorization.
C2_InjectionRejected ==
    (Returned("process_query") /\ has_injection_phrase(call.query))
    => /\ validate_input(call.query) = <<FALSE, "Security Violation">>
       /\ ~ret.raised
       /\ ret.value = <<REJECT_PREFIX, validate_input(call.query)[2]>>
       /\ ret.calls = <<>>

\* A sensitive query with the phrase in capitals and a run of three
\* whitespace characters has been rejected on an authorized session.
C2_Witness ==
    /\ Returned("process_query")
    /\ call.query = <<"I","G","N","O","R","E"," ","\t","\n","P","r","e","v","i","o","u","s",
                      " ","m","y">>
    /\ call.session_id \in DOMAIN verified_sessions
    /\ ret.value = REJECTION

\* C3 as stated: process_query never raises; a failure of either collaborator
\* comes back as a string.
C3_NeverRaises ==
    Returned("process_query") => ~ret.raised

\* A credential record matches the pair once both inputs are trimmed.
record_matches(row, email, password) ==
    /\ strip(email) = row.dummy_email
    /\ strip(password) = row.dummy_password

\* C4: a login whose pair matches no credential record returns verified=false
\* with no employee identifier and leaves the store as it was, so a session
\* that was not authorized is not authorized afterwards.
C4_FailedLoginChangesNothing ==
    ( /\ Returned("login")
      /\ \A n \in 1..Len(creds_df) : ~record_matches(creds_df[n], call.email, call.password) )
    => /\ ~ret.raised
       /\ ret.value.verified = FALSE
       /\ ret.value.employee_number = None
       /\ verified_sessions = pre_sessions
       /\ (call.session_id \notin DOMAIN pre_sessions
              => call.session_id \notin DOMAIN verified_sessions)

\* A known login with another record's secret has failed on a session that is
\* not authorized, while the other session is.
C4_Witness ==
    /\ Returned("login")
    /\ call.email = <<"a","@","x">>
    /\ call.password = <<"p","w","3">>
    /\ call.session_id \notin DOMAIN verified_sessions
    /\ DOMAIN pre_sessions # {}
    /\ ret.value.verified = FALSE

\* text is field with whitespace (possibly none) before and after it
padded(text, field) ==
    \E i \in 1..(Len(text) + 1) :
        /\ i + Len(field) - 1 <= Len(text)
        /\ SubSeq(text, i, i + Len(field) - 1) = field
        /\ \A k \in 1..(i - 1) : text[k] \in Whitespace
        /\ \A k \in (i + Len(field))..Len(text) : text[k] \in Whitespace

login_succeeded_as(row) ==
    /\ ~ret.raised
    /\ ret.value.verified = TRUE
    /\ ret.value.employee_number = row.EmployeeNumber
    /\ call.session_id \in DOMAIN verified_sessions
    /\ verified_sessions[call.session_id] = row.EmployeeNumber

\* C5 as stated: login with any record's login identifier and secret, each
\* optionally surrounded by whitespace, succeeds as that record's employee.
C5_Original ==
    Returned("login") =>
        \A n \in 1..Len(creds_df) :
            ( /\ padded(call.email, creds_df[n].dummy_email)
              /\ padded(call.password, creds_df[n].dummy_password) )
            => login_succeeded_as(creds_df[n])

\* C5 amended: the same for the records whose stored login identifier and
\* secret do not themselves begin or end with whitespace.
C5_TrimmedRecordLogsIn ==
    Returned("login") =>
        \A n \in 1..Len(creds_df) :
            ( /\ strip(creds_df[n].dummy_email) = creds_df[n].dummy_email
              /\ strip(creds_df[n].dummy_password) = creds_df[n].dummy_password
              /\ padded(call.email, creds_df[n].dummy_email)
              /\ padded(call.password, creds_df[n].dummy_password) )
            => login_succeeded_as(creds_df[n])

\* A login with whitespace around both fields has succeeded, replacing the
\* employee the session was authorized for.
C5_Witness ==
    /\ Returned("login")
    /\ call.email = <<" ","a","@","x","\t">>
    /\ call.password = <<"\t","p","w","1"," ">>
    /\ call.session_id \in DOMAIN pre_sessions
    /\ pre_sessions[call.session_id] = 102
    /\ verified_sessions[call.session_id] = 101

\* C6: after logout(sid) the session is not authorized, whether it was
\* before or not; and a SENSITIVE_INTERNAL query on a session logged out and
\* not successfully logged in since is turned away without any collaborator
\* call (with the access-denied message when it passes the gate).
C6_LogoutRevokes ==
    /\ Returned("logout") => call.session_id \notin DOMAIN verified_sessions
    /\ ( /\ Returned("process_query")
         /\ call.session_id \in revoked
         /\ classify(call.query).intent = SENSITIVE_INTERNAL )
       => /\ ~ret.raised
          /\ ret.calls = <<>>
          /\ ret.value \in {<<ACCESS_DENIED>>, REJECTION}
          /\ validate_input(call.query)[1] => ret.value = <<ACCESS_DENIED>>

\* A session that was authorized has been logged out.
C6_Witness ==
    /\ Returned("logout")
    /\ call.session_id \in DOMAIN pre_sessions
    /\ call.session_id \notin DOMAIN verified_sessions

\* C7: logout of a session that is not in the store raises nothing and leaves
\* the whole store as it was.
C7_LogoutIdempotent ==
    (Returned("logout") /\ call.session_id \notin DOMAIN pre_sessions)
    => (~ret.raised /\ verified_sessions = pre_sessions)

\* A session already logged out has been logged out again while the other
\* session is authorized.
C7_Witness ==
    /\ Returned("logout")
    /\ call.session_id \notin DOMAIN pre_sessions
    /\ call.session_id \in revoked
    /\ DOMAIN pre_sessions # {}
    /\ ~ret.raised

\* C10: when the Text-Generation Service raises, process_query returns the
\* error string with the failure detail in it; when the service answers,
\* process_query returns its text.
C10_GenerationFailureIsAString ==
    (Returned("process_query") /\ Len(ret.calls) = 2) =>
        LET llm == ret.calls[2].result
        IN  /\ ~ret.raised
            /\ llm.kind = "raise" => ret.value = <<ERROR_PREFIX, llm.error>>
            /\ llm.kind = "message" => ret.value = <<llm.content>>
            /\ llm.kind = "plain" => ret.value = <<llm.str>>

\* The service has raised and the caller has the error string.
C10_Witness ==
    /\ Returned("process_query")
    /\ Len(ret.calls) = 2
    /\ ret.calls[2].result = [kind |-> "raise", error |-> "quota exceeded"]
    /\ ret.value = <<ERROR_PREFIX, "quota exceeded">>


-----------------------------------------------------------------------------
(* Properties of the sequences of calls                                    *)

is_safe(query)      == validate_input(query)[1]
is_sensitive(query) == classify(query).intent = SENSITIVE_INTERNAL

\* The query of the call in progress is let through to retrieval.
let_through ==
    /\ is_safe(call.query)
    /\ (~is_sensitive(call.query) \/ call.session_id \in DOMAIN pre_sessions)

\* C12 as stated: every query that passes the gate and is not sensitive, or
\* is sensitive on an authorized session, reaches the Document Index and then
\* the Text-Generation Service.
C12_Original ==
    (Returned("process_query") /\ let_through)
    => /\ Len(ret.calls) = 2
       /\ ret.calls[1].service = "index"
       /\ ret.calls[2].service = "llm"

\* C12 amended: such a query reaches the Document Index; it then reaches the
\* Text-Generation Service when the search returns, and no generation call
\* is made when the search raises.  No other query reaches a collaborator,
\* and the agent selected decides nothing of this.
C12_AuthorizationOnlyForSensitive ==
    Returned("process_query") =>
        IF let_through
        THEN /\ Len(ret.calls) >= 1
             /\ ret.calls[1].service = "index"
             /\ ret.calls[1].arg = call.query
             /\ IF ret.calls[1].result.kind = "docs"
                THEN Len(ret.calls) = 2 /\ ret.calls[2].service = "llm"
                ELSE Len(ret.calls) = 1
        ELSE ret.calls = <<>>

\* An HR query, routed to the HR agent, has been answered on a session that
\* is not authorized.
C12_Witness ==
    /\ Returned("process_query")
    /\ call.query = <<"H","R"," ","l","e","a","v","e">>
    /\ call.session_id \notin DOMAIN verified_sessions
    /\ ret.agent = hr_agent
    /\ Len(ret.calls) = 2
    /\ ret.value = <<"generated answer">>

\* C13: the store changes only in a successful login, which sets the entry of
\* the given session id, and in the logout of a session that is present,
\* which removes that entry; process_query never changes it.
C13_StoreFrame ==
    [][ verified_sessions' # verified_sessions =>
          /\ pc = "called"
          /\ \/ /\ call.op = "login"
                /\ ret'.value.verified
                /\ verified_sessions' =
                       dict_set(verified_sessions, call.session_id,
                                ret'.value.employee_number)
             \/ /\ call.op = "logout"
                /\ call.session_id \in DOMAIN verified_sessions
                /\ verified_sessions' = dict_del(verified_sessions, call.session_id) ]_vars

\* process_query has answered a sensitive query on an authorized session and
\* the store is as it was.
C13_Witness ==
    /\ Returned("process_query")
    /\ is_sensitive(call.query)
    /\ Len(ret.calls) = 2
    /\ call.session_id \in DOMAIN verified_sessions
    /\ verified_sessions = pre_sessions

EmployeeNumbers == {creds_df[n].EmployeeNumber : n \in 1..Len(creds_df)}

\* C14: a session in the store maps to the employee identifier returned by
\* the most recent successful login on it since its last logout, which is
\* the identifier of a credential record; a session with no such login is
\* not in the store.
C14_LatestLoginWins ==
    /\ DOMAIN verified_sessions = DOMAIN last_login
    /\ \A s \in DOMAIN verified_sessions :
          /\ verified_sessions[s] = last_login[s]
          /\ verified_sessions[s] \in EmployeeNumbers

\* A successful login on a session authorized for employee 101 has replaced
\* it by employee 102.
C14_Witness ==
    /\ Returned("login")
    /\ call.session_id \in DOMAIN pre_sessions
    /\ pre_sessions[call.session_id] = 101
    /\ ret.value.verified
    /\ ret.value.employee_number = 102
    /\ verified_sessions[call.session_id] = 102

\* C15: a collaborator is called for a sensitive query on session s only if
\* a login on s has succeeded with no logout on s since; a session with no
\* such login (every session of a fresh orchestrator) is not authorized.
C15_SensitiveNeedsLogin ==
    /\ ( /\ Returned("process_query")
         /\ is_sensitive(call.query)
         /\ ret.calls # <<>> )
       => call.session_id \in DOMAIN last_login
    /\ DOMAIN verified_sessions \subseteq DOMAIN last_login

\* A sensitive query has been turned away on a session that had been logged
\* in and then logged out, while the other session is authorized.
C15_Witness ==
    /\ Returned("process_query")
    /\ is_sensitive(call.query)
    /\ is_safe(call.query)
    /\ call.session_id \in revoked
    /\ DOMAIN verified_sessions # {}
    /\ ret.calls = <<>>

\* C16: a login (successful or not) or a logout on one session leaves every
\* other session as it was: authorized or not, and for the same employee; and
\* a sensitive query is let through only on the authorization of its own
\* session.
C16_SessionsIsolated ==
    /\ (Returned("login") \/ Returned("logout")) =>
          \A b \in SessionIds \ {call.session_id} :
              /\ b \in DOMAIN verified_sessions <=> b \in DOMAIN pre_sessions
              /\ b \in DOMAIN pre_sessions => verified_sessions[b] = pre_sessions[b]
    /\ ( /\ Returned("process_query")
         /\ is_sensitive(call.query)
         /\ ret.calls # <<>> )
       => call.session_id \in DOMAIN verified_sessions

\* A login has succeeded on "session_user_1" while "default" is not
\* authorized.
C16_Witness ==
    /\ Returned("login")
    /\ call.session_id = "session_user_1"
    /\ ret.value.verified
    /\ "default" \notin DOMAIN verified_sessions
    /\ "default" \in revoked


NEWLINE == <<"\n">>

\* The text of the first min(3, n) of the n passages, a newline between two.
first_three_joined(docs) ==
    IF Len(docs) = 0 THEN <<>>
    ELSE IF Len(docs) = 1 THEN docs[1]
    ELSE IF Len(docs) = 2 THEN docs[1] \o NEWLINE \o docs[2]
    ELSE docs[1] \o NEWLINE \o docs[2] \o NEWLINE \o docs[3]

services_called == [n \in 1..Len(ret.calls) |-> ret.calls[n].service]

\* C18: a query that reaches retrieval makes one search of the Document
\* Index, with the raw query, before the one call of the Text-Generation
\* Service; the context in the prompt is the newline-joined text of the first
\* min(3, n) of the n passages returned, and any n (0 included) is accepted
\* without a fault.
C18_RetrievalThenGeneration ==
    (Returned("process_query") /\ ret.calls # <<>>) =>
        /\ services_called \in {<<"index">>, <<"index", "llm">>}
        /\ ret.calls[1].arg = call.query
        /\ ret.calls[1].result.kind = "docs" =>
              /\ services_called = <<"index", "llm">>
              /\ ret.calls[2].arg.context = first_three_joined(ret.calls[1].result.docs)
              /\ ret.calls[2].arg.query = call.query
              /\ ~ret.raised

\* The index has returned four passages and the prompt holds the first three.
C18_Witness ==
    /\ Returned("process_query")
    /\ Len(ret.calls) = 2
    /\ Len(ret.calls[1].result.docs) = 4
    /\ ret.calls[2].arg.context = <<"d","1","\n","d","2","\n","d","3">>

\* The routing table of spec section 4.5.
routing_table ==
    [i \in IntentCategory |->
        CASE i = HR_QUERY           -> "HRAgent"
          [] i = FINANCE_QUERY      -> "FinanceAgent"
          [] i = SENSITIVE_INTERNAL -> "HRAgent"
          [] OTHER                  -> "GeneralAgent"]

\* C19: the agent selected for an intent is the one of the routing table
\* (GENERAL_AWARENESS and PII: the General agent), and where the selected
\* agent has requires_verification it is true exactly for SENSITIVE_INTERNAL.
C19_RoutingTable ==
    Returned("select_agent") =>
        /\ ret.value.agent.name = routing_table[call.intent]
        /\ defines_requires_verification(ret.value.agent) =>
              (ret.value.requires_verification <=> call.intent = SENSITIVE_INTERNAL)

\* SENSITIVE_INTERNAL has been routed to the HR agent, which requires
\* verification for it.
C19_Witness ==
    /\ Returned("select_agent")
    /\ call.intent = SENSITIVE_INTERNAL
    /\ ret.value.agent = hr_agent
    /\ ret.value.requires_verification = TRUE


-----------------------------------------------------------------------------
(* Properties of the chat page                                             *)

auth_status_is_true == has(session_state, "auth_status") /\ session_state.auth_status

ui_session_authorized ==
    /\ has(session_state, "orchestrator")
    /\ has(session_state, "user_session")
    /\ session_state.user_session \in DOMAIN verified_sessions

auth_fields(ss) ==
    <<IF has(ss, "auth_status") THEN {ss.auth_status} ELSE {},
      IF has(ss, "user_email") THEN {ss.user_email} ELSE {}>>

\* C17: after every event of the chat page (Login click, Logout click,
\* chat message, rerun) auth_status is true exactly when user_session is in
\* the orchestrator's verified_sessions, and user_email is set exactly when
\* auth_status is true; a Login click made while there is no orchestrator
\* leaves auth_status false and user_email unset.
C17_UIFlagMatchesStore ==
    /\ auth_status_is_true <=> ui_session_authorized
    /\ has(session_state, "user_email") <=> auth_status_is_true
    /\ (pc = "returned" /\ call.op = "Login" /\ ~call.orchestrator) =>
           (~auth_status_is_true /\ ~has(session_state, "user_email"))

\* A Login click has logged the page's session in and the run that
\* st.rerun() started has shown the Logout button.
C17_Witness ==
    /\ pc = "returned" /\ call.op = "Rerun"
    /\ call.email = <<" ","a","@","x","\t">>
    /\ auth_status_is_true
    /\ session_state.user_email = <<" ","a","@","x","\t">>
    /\ verified_sessions = [s \in {"session_user_1"} |-> 101]
    /\ "logout_button" \in page


-----------------------------------------------------------------------------
(* Properties of the threads                                               *)

in_logout_between_test_and_del(t) == thr[t].pc = "del"

\* C11: with several threads on one orchestrator the accesses to the Session
\* Authorization Store exclude one another, so that no interleaving of
\* login, logout and process_query ends a call in a fault: no thread is
\* between the membership test and the del of logout while another thread
\* is there for the same session, and no call raises.
C11_StoreAccessExclusive ==
    /\ \A t \in DOMAIN thr : ~thr[t].ret.raised
    /\ \A t, u \in DOMAIN thr :
           (/\ t # u
            /\ in_logout_between_test_and_del(t)
            /\ in_logout_between_test_and_del(u))
               => thr[t].call.session_id # thr[u].call.session_id

====
